---- MODULE Spec2Model ----
(***************************************************************************)
(* Model of github_statbot.py: a Telegram bot that looks GitHub users up.  *)
(*                                                                         *)
(* Strings are sequences of one-character strings, so that the regular     *)
(* expression, str.strip, str.split and the f-string tokens are computed   *)
(* character by character.  A reply text is a record naming the f-string   *)
(* template and the values interpolated into it.                           *)
(*                                                                         *)
(* Three specifications:                                                   *)
(*   Spec       the handlers registered in main(), two conversations       *)
(*   SpecValid  is_valid_github_username applied to bounded inputs         *)
(*   SpecFetch  get_github_user_info / get_github_repos applied to every   *)
(*              modelled remote response                                   *)
(***************************************************************************)
EXTENDS Integers, Sequences, FiniteSets, TLC

VARIABLES user_data, ev, out, calls, fin, fout

vars == <<user_data, ev, out, calls, fin, fout>>

dvars == <<user_data, ev, out, calls>>

(***************************************************************************)
(* Characters                                                              *)
(***************************************************************************)
Lower == {"a", "b", "c", "d", "e", "f", "g", "h", "i", "j", "k", "l", "m",
          "n", "o", "p", "q", "r", "s", "t", "u", "v", "w", "x", "y", "z"}

Upper == {"A", "B", "C", "D", "E", "F", "G", "H", "I", "J", "K", "L", "M",
          "N", "O", "P", "Q", "R", "S", "T", "U", "V", "W", "X", "Y", "Z"}

Digit == {"0", "1", "2", "3", "4", "5", "6", "7", "8", "9"}

NL == "\n"

\* the class [a-zA-Z0-9] of the pattern
Alnum == Lower \cup Upper \cup Digit

\* the class [a-zA-Z0-9-] of the pattern
AlnumHyphen == Alnum \cup {"-"}

\* the characters str.strip() removes
Whitespace == {" ", NL, "\t"}

SetMin(S) == CHOOSE m \in S : \A n \in S : m <= n

SetMax(S) == CHOOSE m \in S : \A n \in S : m >= n

\* n copies of the character c
Rep(n, c) == [i \in 1..n |-> c]

(***************************************************************************)
(* is_valid_github_username                                                *)
(***************************************************************************)
\* the {0,37} of the pattern
RepeatMax == 37

\* Python's "$" without re.MULTILINE, with position i the next unread
\* character: the end of the string, or just before a newline that is the
\* last character of the string.
AtDollar(s, i) ==
    \/ i = Len(s) + 1
    \/ i = Len(s) /\ s[i] = NL

\* re.match(r'^[a-zA-Z0-9](?:[a-zA-Z0-9-]{0,37}[a-zA-Z0-9])?$', username)
is_valid_github_username(username) ==
    /\ Len(username) >= 1
    /\ username[1] \in Alnum
    /\ \/ AtDollar(username, 2)
       \/ \E k \in 0..RepeatMax :
             /\ 2 + k <= Len(username)
             /\ \A j \in 2..(1 + k) : username[j] \in AlnumHyphen
             /\ username[2 + k] \in Alnum
             /\ AtDollar(username, 3 + k)

(***************************************************************************)
(* The Identifier of the data model, as the specification words it, and    *)
(* letter case.                                                            *)
(***************************************************************************)
IdMaxLen == 39

PatternOK(s) ==
    /\ Len(s) >= 1
    /\ Len(s) <= IdMaxLen
    /\ \A i \in 1..Len(s) : s[i] \in AlnumHyphen
    /\ s[1] # "-"
    /\ s[Len(s)] # "-"

LowerSeq == <<"a", "b", "c", "d", "e", "f", "g", "h", "i", "j", "k", "l", "m",
              "n", "o", "p", "q", "r", "s", "t", "u", "v", "w", "x", "y", "z">>

UpperSeq == <<"A", "B", "C", "D", "E", "F", "G", "H", "I", "J", "K", "L", "M",
              "N", "O", "P", "Q", "R", "S", "T", "U", "V", "W", "X", "Y", "Z">>

SwapChar(c) ==
    IF c \in Lower THEN UpperSeq[CHOOSE i \in 1..26 : LowerSeq[i] = c]
    ELSE IF c \in Upper THEN LowerSeq[CHOOSE i \in 1..26 : UpperSeq[i] = c]
    ELSE c

SwapCase(s) == [i \in 1..Len(s) |-> SwapChar(s[i])]

(***************************************************************************)
(* Inputs of the validator harness                                         *)
(***************************************************************************)
MaxShort == 3

PadSlack == 2

VChars == {"a", "Z", "7", "-", "_", " ", NL}

SeqsUpTo(S, n) == UNION {[1..k -> S] : k \in 0..n}

\* strings of length RepeatMax + 1 .. RepeatMax + 2 + PadSlack: one character,
\* a run of letters or hyphens, one character
LongInputs ==
    {<<h>> \o Rep(m, c) \o <<t>> :
        h \in VChars, t \in VChars, c \in {"a", "-"},
        m \in (RepeatMax - 1)..(RepeatMax + PadSlack)}

ValidatorInputs == SeqsUpTo(VChars, MaxShort) \cup LongInputs

(***************************************************************************)
(* Reply texts.  One record per f-string: tmpl names the literal text,     *)
(* username the interpolated {username}, diag the interpolated {str(e)},   *)
(* lines the "label: value" lines appended to it.                          *)
(***************************************************************************)
Text(tmpl, username, diag, lines) ==
    [username |-> username, tmpl |-> tmpl, diag |-> diag, lines |-> lines]

\* "Invalid username '@{username}'. GitHub usernames can only contain ..."
InvalidText(username) == Text("invalid_username", username, "", <<>>)

\* "GitHub API rate limit exceeded. Please try again later."
RateLimitText == Text("rate_limit", <<>>, "", <<>>)

\* "Sorry, the GitHub user '@{username}' does not exist. ..."
NotExistText(username) == Text("not_exist", username, "", <<>>)

\* "An unexpected error occurred: {str(e)}. Please try again."
UnexpectedErrorText(diag) == Text("unexpected_error", <<>>, diag, <<>>)

(***************************************************************************)
(* The remote API's answer to one requests.get: the call raises, or        *)
(* returns a status and a body.                                            *)
(***************************************************************************)
Statuses == {200, 300, 403, 404, 500, 503}

TransportErrors == {"ConnectionRefused", "NameResolutionFailed"}

ProfileKeys == {"name", "bio", "public_repos", "followers", "following",
                "created_at", "html_url"}

\* a key of a JSON object: absent, present with null, present with a value
FieldStates == {"missing", "null", "val"}

MaxRepos == 2

RepoEntries ==
    {[name |-> n, type |-> "object", desc |-> d] :
        n \in {"r1", "r2"}, d \in {"null", "short", "long"}}
    \cup {[name |-> "", type |-> "other", desc |-> ""]}

NoFields == [k \in ProfileKeys |-> "missing"]

Body(type, fields, items) == [type |-> type, fields |-> fields, items |-> items]

\* a body response.json() cannot parse
Unparseable == Body("unparseable", NoFields, <<>>)

\* a JSON string, number, boolean or null
Scalar == Body("scalar", NoFields, <<>>)

ObjectBodies == {Body("object", f, <<>>) : f \in [ProfileKeys -> FieldStates]}

ArrayBodies == {Body("array", NoFields, a) : a \in SeqsUpTo(RepoEntries, MaxRepos)}

Bodies == {Unparseable, Scalar} \cup ObjectBodies \cup ArrayBodies

Raised(diag) == [diag |-> diag, kind |-> "raise", status |-> 0, body |-> Unparseable]

Http(status, body) == [diag |-> "", kind |-> "http", status |-> status, body |-> body]

Responses ==
    {Raised(d) : d \in TransportErrors}
    \cup {Http(st, b) : st \in Statuses, b \in Bodies}

\* the request a lookup issues: requests.get(url)
Get(endpoint, username) == [username |-> username, endpoint |-> endpoint]

\* Response.raise_for_status(): HTTPError for 4xx and 5xx
RaisesForStatus(status) == status >= 400 /\ status < 600

\* str(e) of that HTTPError
HTTPErrorText(status) ==
    CASE status = 403 -> "403 Client Error"
      [] status = 404 -> "404 Client Error"
      [] status = 500 -> "500 Server Error"
      [] status = 503 -> "503 Server Error"
      [] OTHER -> "HTTP Error"

\* mutant of Result: a lookup that did not succeed is issued a second time
Result_Retry(reply, success, reqs) ==
    [calls |-> IF success THEN reqs ELSE reqs \o reqs,
     reply |-> reply,
     success |-> success]

Result(reply, success, reqs) == [calls |-> reqs, reply |-> reply, success |-> success]

\* dict.get(key, default), as the f-string prints it
DictGet(fields, key, default) ==
    CASE fields[key] = "missing" -> default
      [] fields[key] = "null" -> "None"
      [] OTHER -> key

(***************************************************************************)
(* get_github_user_info                                                    *)
(***************************************************************************)
ProfileText(username, f) ==
    Text("profile", username, "",
         << <<"Name", DictGet(f, "name", "N/A")>>,
            <<"Bio", DictGet(f, "bio", "N/A")>>,
            <<"Public Repos", DictGet(f, "public_repos", "0")>>,
            <<"Followers", DictGet(f, "followers", "0")>>,
            <<"Following", DictGet(f, "following", "0")>>,
            <<"Joined", IF f["created_at"] = "missing" THEN "N/A" ELSE "date">>,
            <<"Profile", DictGet(f, "html_url", "https://github.com/{username}")>> >>)

get_github_user_info(username, resp) ==
    LET req == <<Get("users", username)>> IN
    IF ~is_valid_github_username(username)
    THEN Result(InvalidText(username), FALSE, <<>>)
    ELSE IF resp.kind = "raise"
    THEN Result(UnexpectedErrorText(resp.diag), FALSE, req)
    ELSE IF resp.status = 403
    THEN Result(RateLimitText, FALSE, req)
    ELSE IF RaisesForStatus(resp.status)
    THEN IF resp.status = 404
         THEN Result(NotExistText(username), FALSE, req)
         ELSE Result(Text("error_fetching_user", <<>>, HTTPErrorText(resp.status), <<>>),
                     FALSE, req)
    ELSE IF resp.body.type = "unparseable"
    THEN Result(UnexpectedErrorText("JSONDecodeError"), FALSE, req)
    ELSE IF resp.body.type # "object"
    THEN Result(Text("unexpected_response_user", username, "", <<>>), FALSE, req)
    ELSE IF resp.body.fields["created_at"] = "null"
    THEN Result(UnexpectedErrorText("AttributeError"), FALSE, req)
    ELSE Result(ProfileText(username, resp.body.fields), TRUE, req)

(***************************************************************************)
(* get_github_repos                                                        *)
(***************************************************************************)
\* repo.get('description') or 'No description', cut to 100 characters
Description(d) ==
    CASE d = "null" -> "No description"
      [] d = "long" -> "long[:100]..."
      [] OTHER -> d

RepoLines(repo) ==
    << <<"repo", repo.name>>, <<"Description", Description(repo.desc)>>,
       <<"Stars", "stargazers_count">>, <<"URL", "html_url">> >>

\* mutant of RepoListing: the loop ends at the first entry that is no object
RECURSIVE RepoListing_StopsAtNonObject(_)
RepoListing_StopsAtNonObject(items) ==
    IF items = <<>> THEN <<>>
    ELSE IF Head(items).type # "object" THEN <<>>
    ELSE RepoLines(Head(items)) \o RepoListing_StopsAtNonObject(Tail(items))

RECURSIVE RepoListing(_)
RepoListing(items) ==
    IF items = <<>> THEN <<>>
    ELSE IF Head(items).type # "object" THEN RepoListing(Tail(items))
    ELSE RepoLines(Head(items)) \o RepoListing(Tail(items))

\* mutant of ReposText: an empty list reported as a failure
ReposText_EmptyFails(username, items) ==
    IF items = <<>>
    THEN Result(Text("unexpected_response_repos", username, "", <<>>), FALSE,
                <<Get("repos", username)>>)
    ELSE Result(Text("top_repos", username, "", RepoListing(items)), TRUE,
                <<Get("repos", username)>>)

\* the result for a payload that is a list
ReposText(username, items) ==
    IF items = <<>>
    THEN Result(Text("no_repos", username, "", <<>>), TRUE,
                <<Get("repos", username)>>)
    ELSE Result(Text("top_repos", username, "", RepoListing(items)), TRUE,
                <<Get("repos", username)>>)

get_github_repos(username, resp) ==
    LET req == <<Get("repos", username)>> IN
    IF ~is_valid_github_username(username)
    THEN Result(InvalidText(username), FALSE, <<>>)
    ELSE IF resp.kind = "raise"
    THEN Result(UnexpectedErrorText(resp.diag), FALSE, req)
    ELSE IF resp.status = 403
    THEN Result(RateLimitText, FALSE, req)
    ELSE IF RaisesForStatus(resp.status)
    THEN IF resp.status = 404
         THEN Result(NotExistText(username), FALSE, req)
         ELSE Result(Text("error_fetching_repos", <<>>, HTTPErrorText(resp.status), <<>>),
                     FALSE, req)
    ELSE IF resp.body.type = "unparseable"
    THEN Result(UnexpectedErrorText("JSONDecodeError"), FALSE, req)
    ELSE IF resp.body.type # "array"
    THEN Result(Text("unexpected_response_repos", username, "", <<>>), FALSE, req)
    ELSE ReposText(username, resp.body.items)

(***************************************************************************)
(* context.user_data: a dict, as its set of <<key, value>> pairs           *)
(***************************************************************************)
EmptyDict == {}

\* d[key] = value
DictSet(d, key, value) == {p \in d : p[1] # key} \cup {<<key, value>>}

HasKey(d, key) == \E p \in d : p[1] = key

\* mutant of user_data_clear: the stored context survives
user_data_clear_Keeps(d) == d

\* context.user_data.clear()
user_data_clear(d) == EmptyDict

(***************************************************************************)
(* str.strip, str.split('_', 1) and the callback tokens                    *)
(***************************************************************************)
Strip(s) ==
    LET keep == {i \in 1..Len(s) : s[i] \notin Whitespace} IN
    IF keep = {} THEN <<>> ELSE SubSeq(s, SetMin(keep), SetMax(keep))

\* data.split('_', 1): one part when there is no underscore, else two
Split1(s) ==
    LET us == {i \in 1..Len(s) : s[i] = "_"} IN
    IF us = {} THEN <<s>>
    ELSE <<SubSeq(s, 1, SetMin(us) - 1), SubSeq(s, SetMin(us) + 1, Len(s))>>

ActUser == <<"u", "s", "e", "r">>

ActRepos == <<"r", "e", "p", "o", "s">>

ActQuit == <<"q", "u", "i", "t">>

\* mutant of Token: the two parts joined with a hyphen
Token_Hyphen(action, username) == action \o <<"-">> \o username

\* f'{action}_{username}'
Token(action, username) == action \o <<"_">> \o username

\* mutant of Keyboard: the Quit row is left out
Keyboard_NoQuit(username) ==
    <<Token(ActUser, username), Token(ActRepos, username)>>

\* the InlineKeyboardMarkup both handlers build, as its callback_data
Keyboard(username) ==
    <<Token(ActUser, username), Token(ActRepos, username), Token(ActQuit, username)>>

\* reply_text(text, reply_markup=markup); <<>> is no markup
Msg(text, markup) == [text |-> text, markup |-> markup]

GreetingText == Text("greeting", <<>>, "", <<>>)

HelpText == Text("help", <<>>, "", <<>>)

QuitText == Text("interaction_ended", <<>>, "", <<>>)

UsageText == Text("repos_usage", <<>>, "", <<>>)

\* what one handler run did: the dict it leaves, the messages it sent, the
\* requests it issued, and the exception it ended in ("" when it returned)
HResult(ud, outs, reqs, exc) ==
    [user_data |-> ud, out |-> outs, calls |-> reqs, exc |-> exc]

(***************************************************************************)
(* The handlers                                                            *)
(***************************************************************************)
\* mutant of start: the stored context is not cleared
start_KeepsContext(ud) == HResult(ud, <<Msg(GreetingText, <<>>)>>, <<>>, "")

start(ud) == HResult(user_data_clear(ud), <<Msg(GreetingText, <<>>)>>, <<>>, "")

\* mutant of help_command: help resets the conversation
help_command_Clears(ud) == HResult(EmptyDict, <<Msg(HelpText, <<>>)>>, <<>>, "")

help_command(ud) == HResult(ud, <<Msg(HelpText, <<>>)>>, <<>>, "")

quit_command(ud) == HResult(user_data_clear(ud), <<Msg(QuitText, <<>>)>>, <<>>, "")

\* mutant of handle_username: the menu is offered without validating
handle_username_MenuAlways(ud, text) ==
    LET username == Strip(text)
        stored == DictSet(ud, "last_username", username)
    IN  HResult(stored,
                <<Msg(Text("what_about", username, "", <<>>), Keyboard(username))>>,
                <<>>, "")

handle_username(ud, text) ==
    LET username == Strip(text)
        stored == DictSet(ud, "last_username", username)
    IN  IF ~is_valid_github_username(username)
        THEN HResult(stored, <<Msg(InvalidText(username), <<>>)>>, <<>>, "")
        ELSE HResult(stored,
                     <<Msg(Text("what_about", username, "", <<>>), Keyboard(username))>>,
                     <<>>, "")

\* mutant of ButtonReplies: the menu follows every reply
ButtonReplies_AlwaysMenu(reply, success, username) ==
    <<Msg(reply, <<>>),
      Msg(Text("anything_else", username, "", <<>>), Keyboard(username))>>

\* the messages button_callback sends after a lookup
ButtonReplies(reply, success, username) ==
    IF success
    THEN <<Msg(reply, <<>>),
           Msg(Text("anything_else", username, "", <<>>), Keyboard(username))>>
    ELSE <<Msg(reply, <<>>)>>

\* mutant of ButtonUserData: a failed lookup resets the conversation
ButtonUserData_ClearOnFailure(ud, success) ==
    IF success THEN ud ELSE EmptyDict

\* the dict after a 'user' or 'repos' press: no statement writes it
ButtonUserData(ud, success) == ud

\* mutant of button_callback: the lookup is for the stored identifier
button_callback_UsesStored(ud, data, resp) ==
    LET parts == Split1(data) IN
    IF Len(parts) # 2
    THEN HResult(ud, <<>>, <<>>, "ValueError")
    ELSE LET action == parts[1]
             username == IF HasKey(ud, "last_username")
                         THEN (CHOOSE p \in ud : p[1] = "last_username")[2]
                         ELSE parts[2]
         IN  IF action = ActQuit
             THEN HResult(user_data_clear(ud), <<Msg(QuitText, <<>>)>>, <<>>, "")
             ELSE IF action \notin {ActUser, ActRepos}
             THEN HResult(ud, <<>>, <<>>, "UnboundLocalError")
             ELSE LET r == IF action = ActUser
                           THEN get_github_user_info(username, resp)
                           ELSE get_github_repos(username, resp)
                  IN  HResult(ButtonUserData(ud, r.success),
                              ButtonReplies(r.reply, r.success, username),
                              r.calls, "")

button_callback(ud, data, resp) ==
    LET parts == Split1(data) IN
    IF Len(parts) # 2
    THEN HResult(ud, <<>>, <<>>, "ValueError")
    ELSE LET action == parts[1]
             username == parts[2]
         IN  IF action = ActQuit
             THEN HResult(user_data_clear(ud), <<Msg(QuitText, <<>>)>>, <<>>, "")
             ELSE IF action \notin {ActUser, ActRepos}
             THEN HResult(ud, <<>>, <<>>, "UnboundLocalError")
             ELSE LET r == IF action = ActUser
                           THEN get_github_user_info(username, resp)
                           ELSE get_github_repos(username, resp)
                  IN  HResult(ButtonUserData(ud, r.success),
                              ButtonReplies(r.reply, r.success, username),
                              r.calls, "")

\* mutant of repos_command: the looked-up name becomes the stored identifier
repos_command_Remembers(ud, args, resp) ==
    IF args = <<>>
    THEN HResult(ud, <<Msg(UsageText, <<>>)>>, <<>>, "")
    ELSE LET username == Strip(args[1]) IN
         IF ~is_valid_github_username(username)
         THEN HResult(ud, <<Msg(InvalidText(username), <<>>)>>, <<>>, "")
         ELSE LET r == get_github_repos(username, resp) IN
              HResult(DictSet(ud, "last_username", username),
                      <<Msg(r.reply, <<>>)>>, r.calls, "")

\* args: context.args, the whitespace-separated words after /repos
repos_command(ud, args, resp) ==
    IF args = <<>>
    THEN HResult(ud, <<Msg(UsageText, <<>>)>>, <<>>, "")
    ELSE LET username == Strip(args[1]) IN
         IF ~is_valid_github_username(username)
         THEN HResult(ud, <<Msg(InvalidText(username), <<>>)>>, <<>>, "")
         ELSE LET r == get_github_repos(username, resp) IN
              HResult(ud, <<Msg(r.reply, <<>>)>>, r.calls, "")

(***************************************************************************)
(* Inbound events of the dispatcher specification                          *)
(***************************************************************************)
Convs == {"c1", "c2"}

Octo == <<"a", "b">>

Hyph == <<"a", "-", "B">>

BadName == <<"-", "b", "a", "d", "-", "n", "a", "m", "e", "-">>

\* message texts (filters.TEXT & ~filters.COMMAND)
Texts == {Octo, <<" ">> \o Hyph \o <<NL>>, BadName, <<"a", "_", "b">>}

\* callback_data of a press: the tokens of menus, tokens carrying other
\* usernames, and tokens that are not of the form action_username
PressIds == {Octo, Hyph, BadName, Octo \o <<NL>>}

PressTokens ==
    {Token(a, u) : a \in {ActUser, ActRepos, ActQuit}, u \in PressIds}
    \cup {ActQuit, Token(<<"i", "n", "f", "o">>, Octo)}

\* context.args of /repos
ReposArgs == {<<>>, <<Octo>>, <<Hyph>>, <<BadName>>}

FullProfile == [k \in ProfileKeys |-> "val"]

Repo1 == [name |-> "r1", type |-> "object", desc |-> "short"]

NotObject == [name |-> "", type |-> "other", desc |-> ""]

\* the remote answers the dispatcher specification draws from: one or more for
\* every branch of the two lookups
DispatchResponses ==
    {Raised("ConnectionRefused"), Raised("NameResolutionFailed"),
     Http(403, Scalar), Http(404, Scalar), Http(500, Unparseable),
     Http(503, Unparseable), Http(200, Unparseable), Http(200, Scalar),
     Http(200, Body("object", FullProfile, <<>>)),
     Http(200, Body("object", NoFields, <<>>)),
     Http(200, Body("object", [FullProfile EXCEPT !["created_at"] = "null"], <<>>)),
     Http(200, Body("array", NoFields, <<>>)),
     Http(200, Body("array", NoFields, <<Repo1>>)),
     Http(200, Body("array", NoFields, <<NotObject, Repo1>>)),
     Http(300, Body("object", FullProfile, <<>>))}

NoResp == Raised("")

NoEvent ==
    [kind |-> "none",
     resp |-> NoResp,
     exc |-> "",
     args |-> <<>>,
     conv |-> "",
     pre |-> EmptyDict]

NoInput == [username |-> <<>>, resp |-> NoResp, fn |-> "none"]

NoResult == Result(Text("", <<>>, "", <<>>), FALSE, <<>>)

NoOutput == [done |-> FALSE, valid |-> FALSE, res |-> NoResult]

(***************************************************************************)
(* The dispatcher: Application.process_update runs the one handler that    *)
(* matches the update, with the user_data of the update's conversation.    *)
(***************************************************************************)
\* the record of the event just handled: its kind, conversation and input,
\* the remote answer when a request was issued, the conversation's user_data
\* before the handler ran, and the exception the handler ended in
Event(c, kind, args, resp, r) ==
    [kind |-> kind,
     resp |-> IF r.calls = <<>> THEN NoResp ELSE resp,
     exc |-> r.exc,
     args |-> args,
     conv |-> c,
     pre |-> user_data[c]]

Start(c) ==
    \E r \in {start(user_data[c])} :
    /\ user_data' = [user_data EXCEPT ![c] = r.user_data]
    /\ out' = r.out
    /\ calls' = r.calls
    /\ ev' = Event(c, "start", <<>>, NoResp, r)
    /\ UNCHANGED <<fin, fout>>

Help(c) ==
    \E r \in {help_command(user_data[c])} :
    /\ user_data' = [user_data EXCEPT ![c] = r.user_data]
    /\ out' = r.out
    /\ calls' = r.calls
    /\ ev' = Event(c, "help", <<>>, NoResp, r)
    /\ UNCHANGED <<fin, fout>>

QuitCommand(c) ==
    \E r \in {quit_command(user_data[c])} :
    /\ user_data' = [user_data EXCEPT ![c] = r.user_data]
    /\ out' = r.out
    /\ calls' = r.calls
    /\ ev' = Event(c, "quit", <<>>, NoResp, r)
    /\ UNCHANGED <<fin, fout>>

\* mutant of HandleUsername: one dictionary shared by every conversation
HandleUsername_Global(c) ==
    \E text \in Texts :
        \E r \in {handle_username(user_data[c], text)} :
        /\ user_data' = [d \in Convs |-> r.user_data]
        /\ out' = r.out
        /\ calls' = r.calls
        /\ ev' = Event(c, "text", <<text>>, NoResp, r)
        /\ UNCHANGED <<fin, fout>>

HandleUsername(c) ==
    \E text \in Texts :
        \E r \in {handle_username(user_data[c], text)} :
        /\ user_data' = [user_data EXCEPT ![c] = r.user_data]
        /\ out' = r.out
        /\ calls' = r.calls
        /\ ev' = Event(c, "text", <<text>>, NoResp, r)
        /\ UNCHANGED <<fin, fout>>

ButtonCallback(c) ==
    \E data \in PressTokens, resp \in DispatchResponses :
        \E r \in {button_callback(user_data[c], data, resp)} :
        /\ user_data' = [user_data EXCEPT ![c] = r.user_data]
        /\ out' = r.out
        /\ calls' = r.calls
        /\ ev' = Event(c, "press", <<data>>, resp, r)
        /\ UNCHANGED <<fin, fout>>

ReposCommand(c) ==
    \E args \in ReposArgs, resp \in DispatchResponses :
        \E r \in {repos_command(user_data[c], args, resp)} :
        /\ user_data' = [user_data EXCEPT ![c] = r.user_data]
        /\ out' = r.out
        /\ calls' = r.calls
        /\ ev' = Event(c, "repos", args, resp, r)
        /\ UNCHANGED <<fin, fout>>

Init ==
    /\ user_data = [c \in Convs |-> EmptyDict]
    /\ ev = NoEvent
    /\ out = <<>>
    /\ calls = <<>>
    /\ fin = NoInput
    /\ fout = NoOutput

Next ==
    \E c \in Convs :
        \/ Start(c)
        \/ Help(c)
        \/ QuitCommand(c)
        \/ HandleUsername(c)
        \/ ButtonCallback(c)
        \/ ReposCommand(c)

Spec == Init /\ [][Next]_vars

(***************************************************************************)
(* The validator applied to bounded inputs                                 *)
(***************************************************************************)
InitValid ==
    /\ user_data = [c \in Convs |-> EmptyDict]
    /\ ev = NoEvent
    /\ out = <<>>
    /\ calls = <<>>
    /\ fin \in {[username |-> s, resp |-> NoResp, fn |-> "valid"] : s \in ValidatorInputs}
    /\ fout = NoOutput

Validate ==
    /\ fin.fn = "valid"
    /\ ~fout.done
    /\ fout' = [done |-> TRUE, valid |-> is_valid_github_username(fin.username),
                res |-> NoResult]
    /\ UNCHANGED <<dvars, fin>>

SpecValid == InitValid /\ [][Validate]_vars

(***************************************************************************)
(* The two lookups applied to every modelled remote answer                 *)
(***************************************************************************)
FetchNames == {Octo, BadName, Octo \o <<NL>>}

InitFetch ==
    /\ user_data = [c \in Convs |-> EmptyDict]
    /\ ev = NoEvent
    /\ out = <<>>
    /\ calls = <<>>
    /\ fin \in {[username |-> u, resp |-> r, fn |-> f] :
                    f \in {"user", "repos"}, u \in FetchNames, r \in Responses}
    /\ fout = NoOutput

FetchUser ==
    /\ fin.fn = "user"
    /\ ~fout.done
    /\ fout' = [done |-> TRUE, valid |-> is_valid_github_username(fin.username),
                res |-> get_github_user_info(fin.username, fin.resp)]
    /\ UNCHANGED <<dvars, fin>>

FetchRepos ==
    /\ fin.fn = "repos"
    /\ ~fout.done
    /\ fout' = [done |-> TRUE, valid |-> is_valid_github_username(fin.username),
                res |-> get_github_repos(fin.username, fin.resp)]
    /\ UNCHANGED <<dvars, fin>>

NextFetch == FetchUser \/ FetchRepos

SpecFetch == InitFetch /\ [][NextFetch]_vars

(***************************************************************************)
(* A lookup whose remote may accept the request and never answer           *)
(***************************************************************************)
\* the remote accepts the request and sends nothing back
Stalled == [diag |-> "", kind |-> "stall", status |-> 0, body |-> Unparseable]

NoTimeout == "None"

\* the timeout argument of requests.get(url): none is passed
RequestTimeout == NoTimeout

\* what requests.get(url, timeout=t) returns or raises; with no timeout the
\* call blocks for as long as the remote stays silent
GetOutcomes(remote, timeout) ==
    IF remote.kind # "stall" THEN {remote}
    ELSE IF timeout = NoTimeout THEN {}
    ELSE {Raised("Timeout")}

LiveResponses == DispatchResponses \cup {Stalled}

InitLive ==
    /\ user_data = [c \in Convs |-> EmptyDict]
    /\ ev = NoEvent
    /\ out = <<>>
    /\ calls = <<>>
    /\ fin \in {[username |-> u, resp |-> r, fn |-> f] :
                    f \in {"user", "repos"}, u \in FetchNames, r \in LiveResponses}
    /\ fout = NoOutput

\* get_github_user_info returns once requests.get has returned or raised
UserInfoReturns ==
    /\ fin.fn = "user"
    /\ ~fout.done
    /\ \E resp \in (IF is_valid_github_username(fin.username)
                    THEN GetOutcomes(fin.resp, RequestTimeout) ELSE {NoResp}) :
          fout' = [done |-> TRUE, valid |-> is_valid_github_username(fin.username),
                   res |-> get_github_user_info(fin.username, resp)]
    /\ UNCHANGED <<dvars, fin>>

\* get_github_repos returns once requests.get has returned or raised
ReposReturns ==
    /\ fin.fn = "repos"
    /\ ~fout.done
    /\ \E resp \in (IF is_valid_github_username(fin.username)
                    THEN GetOutcomes(fin.resp, RequestTimeout) ELSE {NoResp}) :
          fout' = [done |-> TRUE, valid |-> is_valid_github_username(fin.username),
                   res |-> get_github_repos(fin.username, resp)]
    /\ UNCHANGED <<dvars, fin>>

NextLive == UserInfoReturns \/ ReposReturns

\* the interpreter resumes a lookup whose requests.get has an outcome
SpecLive == InitLive /\ [][NextLive]_vars /\ WF_vars(NextLive)

(***************************************************************************)
(* get_github_repos over arrays longer than the page size it asks for      *)
(***************************************************************************)
\* per_page=5 in the request URL
PerPage == 5

MaxLong == 6

Repo2 == [name |-> "r2", type |-> "object", desc |-> "null"]

ListEntries == {Repo1, Repo2, NotObject}

InitList ==
    /\ user_data = [c \in Convs |-> EmptyDict]
    /\ ev = NoEvent
    /\ out = <<>>
    /\ calls = <<>>
    /\ fin \in {[username |-> Octo,
                 resp |-> Http(200, Body("array", NoFields, a)),
                 fn |-> "repos"] :
                    a \in SeqsUpTo(ListEntries, MaxLong)}
    /\ fout = NoOutput

ListRepos ==
    /\ fin.fn = "repos"
    /\ ~fout.done
    /\ fout' = [done |-> TRUE, valid |-> is_valid_github_username(fin.username),
                res |-> get_github_repos(fin.username, fin.resp)]
    /\ UNCHANGED <<dvars, fin>>

SpecList == InitList /\ [][ListRepos]_vars

(***************************************************************************)
(* One conversation: an identifier is submitted, then buttons of the menu  *)
(* last offered are pressed                                                *)
(***************************************************************************)
TokenConv == "c1"

\* the remote answers of this specification: a profile, a list, not found
TokenResponses ==
    {Http(200, Body("object", FullProfile, <<>>)),
     Http(200, Body("array", NoFields, <<Repo1>>)),
     Http(404, Scalar)}

InitToken ==
    /\ user_data = [c \in Convs |-> EmptyDict]
    /\ ev = NoEvent
    /\ out = <<>>
    /\ calls = <<>>
    /\ fin = NoInput
    /\ fout = NoOutput

\* the first free-text message of the conversation
SubmitIdentifier ==
    /\ user_data[TokenConv] = EmptyDict
    /\ \E text \in ValidatorInputs :
        \E r \in {handle_username(user_data[TokenConv], text)} :
        /\ user_data' = [user_data EXCEPT ![TokenConv] = r.user_data]
        /\ out' = r.out
        /\ calls' = r.calls
        /\ ev' = Event(TokenConv, "text", <<text>>, NoResp, r)
        /\ UNCHANGED <<fin, fout>>

\* a press of one button of the menu under the last message sent
PressOffered ==
    /\ out # <<>>
    /\ \E data \in {out[Len(out)].markup[k] : k \in 1..Len(out[Len(out)].markup)},
          resp \in TokenResponses :
        \E r \in {button_callback(user_data[TokenConv], data, resp)} :
        /\ user_data' = [user_data EXCEPT ![TokenConv] = r.user_data]
        /\ out' = r.out
        /\ calls' = r.calls
        /\ ev' = Event(TokenConv, "press", <<data>>, resp, r)
        /\ UNCHANGED <<fin, fout>>

NextToken == SubmitIdentifier \/ PressOffered

SpecToken == InitToken /\ [][NextToken]_vars

(***************************************************************************)
(* Vocabulary of the claims                                                *)
(***************************************************************************)
\* ConversationState.awaitingChoice: an identifier is stored
Awaiting(ud) == HasKey(ud, "last_username")

\* the dict that stores exactly the identifier u
Stored(u) == {<<"last_username", u>>}

\* the last event was a free-text message
IsText == ev.kind = "text"

\* the trimmed body of that message
Trimmed == Strip(ev.args[1])

\* the last event was a press whose token decodes to an action and a username
IsPress == ev.kind = "press" /\ Len(Split1(ev.args[1])) = 2

PressAction == Split1(ev.args[1])[1]

PressUsername == Split1(ev.args[1])[2]

IsLookupPress == IsPress /\ PressAction \in {ActUser, ActRepos}

IsQuitPress == IsPress /\ PressAction = ActQuit

\* a message carrying the three-choice menu for u: profile, repositories, quit
IsMenuFor(m, u) ==
    /\ Len(m.markup) = 3
    /\ Split1(m.markup[1]) = <<ActUser, u>>
    /\ Split1(m.markup[2]) = <<ActRepos, u>>
    /\ Split1(m.markup[3]) = <<ActQuit, u>>

NoMenuIn(msgs) == \A i \in 1..Len(msgs) : msgs[i].markup = <<>>

\* the LookupOutcome a reply text stands for
OutcomeOf(reply) ==
    CASE reply.tmpl \in {"profile", "top_repos", "no_repos"} -> "Success"
      [] reply.tmpl = "not_exist" -> "NotFound"
      [] reply.tmpl = "rate_limit" -> "RateLimited"
      [] reply.tmpl \in {"unexpected_response_user", "unexpected_response_repos"}
            -> "MalformedUpstream"
      [] reply.tmpl = "invalid_username" -> "ValidationError"
      [] OTHER -> "NetworkOrTransportFailure"

\* the outcome the fixed table of section 4.2 gives a response
TableOutcome(fn, resp) ==
    IF resp.kind = "raise" THEN "NetworkOrTransportFailure"
    ELSE IF resp.status = 403 THEN "RateLimited"
    ELSE IF resp.status = 404 THEN "NotFound"
    ELSE IF resp.status # 200 THEN "NetworkOrTransportFailure"
    ELSE IF resp.body.type = "unparseable" THEN "NetworkOrTransportFailure"
    ELSE IF resp.body.type = (IF fn = "user" THEN "object" ELSE "array") THEN "Success"
    ELSE "MalformedUpstream"

Lookup(fn, username, resp) ==
    IF fn = "user" THEN get_github_user_info(username, resp)
    ELSE get_github_repos(username, resp)

EmptyArray == Http(200, Body("array", NoFields, <<>>))

(***************************************************************************)
(* C1: a free-text message whose trimmed body is not a valid identifier    *)
(* gets the validation message, no menu, and leaves the conversation's     *)
(* user_data as it was before the message.                                 *)
(***************************************************************************)
C1_InvalidTextLeavesState ==
    (IsText /\ ~PatternOK(Trimmed)) =>
        /\ out = <<Msg(InvalidText(Trimmed), <<>>)>>
        /\ user_data[ev.conv] = ev.pre

(***************************************************************************)
(* C2: every HTTP GET issued while handling an event is for a username     *)
(* that matches the Identifier pattern, and the text '-bad-name-' issues   *)
(* no GET and gets the validation message.                                 *)
(***************************************************************************)
C2_OnlyIdentifiersFetched ==
    /\ \A i \in 1..Len(calls) : PatternOK(calls[i].username)
    /\ (IsText /\ Trimmed = BadName) =>
            calls = <<>> /\ out = <<Msg(InvalidText(BadName), <<>>)>>

(***************************************************************************)
(* C3: is_valid_github_username(s) is true exactly when s has 1 to 39      *)
(* characters, all in [A-Za-z0-9-], with no hyphen first or last; and the  *)
(* result is the same for s with the case of its letters swapped.          *)
(***************************************************************************)
C3_ValidatorIsPattern ==
    (fin.fn = "valid" /\ fout.done) =>
        /\ fout.valid <=> PatternOK(fin.username)
        /\ is_valid_github_username(SwapCase(fin.username)) <=> fout.valid

(***************************************************************************)
(* C4: a free-text message whose trimmed body is a valid identifier B      *)
(* leaves B stored and the conversation awaiting a choice, and sends one   *)
(* message with the three-choice menu whose tokens carry B, whatever was   *)
(* stored before.                                                          *)
(***************************************************************************)
C4_ValidTextOffersMenu ==
    (IsText /\ PatternOK(Trimmed)) =>
        /\ user_data[ev.conv] = Stored(Trimmed)
        /\ Awaiting(user_data[ev.conv])
        /\ Len(out) = 1
        /\ out[1].text = Text("what_about", Trimmed, "", <<>>)
        /\ IsMenuFor(out[1], Trimmed)
        /\ calls = <<>>

\* an identifier B submitted while another identifier was stored
C4_Witness ==
    /\ IsText
    /\ PatternOK(Trimmed)
    /\ Awaiting(ev.pre)
    /\ ev.pre # Stored(Trimmed)
    /\ user_data[ev.conv] = Stored(Trimmed)

(***************************************************************************)
(* C5: the quit choice and the quit command leave nothing stored and the   *)
(* conversation not awaiting a choice, and send one acknowledgement that   *)
(* carries no menu.                                                        *)
(***************************************************************************)
C5_QuitResets ==
    (ev.kind = "quit" \/ IsQuitPress) =>
        /\ user_data[ev.conv] = EmptyDict
        /\ ~Awaiting(user_data[ev.conv])
        /\ out = <<Msg(QuitText, <<>>)>>

\* the quit choice pressed while an identifier was stored
C5_Witness ==
    /\ IsQuitPress
    /\ Awaiting(ev.pre)
    /\ user_data[ev.conv] = EmptyDict

(***************************************************************************)
(* C6: after a profile or repositories press the result is sent first,     *)
(* without a menu, and the three-choice menu for the same identifier       *)
(* follows exactly when the outcome is Success; otherwise nothing follows. *)
(***************************************************************************)
C6_MenuIffSuccess ==
    IsLookupPress =>
        /\ Len(out) >= 1
        /\ out[1].markup = <<>>
        /\ IF OutcomeOf(out[1].text) = "Success"
           THEN /\ Len(out) = 2
                /\ IsMenuFor(out[2], PressUsername)
                /\ out[2].text = Text("anything_else", PressUsername, "", <<>>)
           ELSE Len(out) = 1

\* a successful profile press: the profile, then the menu
C6_Witness ==
    /\ IsLookupPress
    /\ PressAction = ActUser
    /\ Len(out) = 2
    /\ out[1].text.tmpl = "profile"
    /\ IsMenuFor(out[2], PressUsername)

(***************************************************************************)
(* C7: a profile or repositories press that does not end in Success        *)
(* leaves the conversation's user_data as it was: the identifier is still  *)
(* stored and the conversation still awaits a choice.                      *)
(***************************************************************************)
C7_FailedPressKeepsState ==
    (IsLookupPress /\ OutcomeOf(out[1].text) # "Success") =>
        /\ user_data[ev.conv] = ev.pre
        /\ Awaiting(ev.pre) => Awaiting(user_data[ev.conv])

\* a rate-limited press (status 403) while an identifier was stored
C7_Witness ==
    /\ IsLookupPress
    /\ ev.resp = Http(403, Scalar)
    /\ OutcomeOf(out[1].text) = "RateLimited"
    /\ Awaiting(ev.pre)
    /\ ev.pre = Stored(PressUsername)
    /\ user_data[ev.conv] = ev.pre

(***************************************************************************)
(* C8: a repositories lookup answered 200 with an empty array is a         *)
(* Success with the 'no public repositories' text; after a press the menu  *)
(* follows and user_data is as before.                                     *)
(***************************************************************************)
C8_EmptyListIsSuccess ==
    (/\ calls # <<>>
     /\ calls[1].endpoint = "repos"
     /\ ev.resp = EmptyArray) =>
        /\ out[1] = Msg(Text("no_repos", calls[1].username, "", <<>>), <<>>)
        /\ OutcomeOf(out[1].text) = "Success"
        /\ user_data[ev.conv] = ev.pre
        /\ IsPress =>
              /\ Len(out) = 2
              /\ IsMenuFor(out[2], PressUsername)
        /\ ev.kind = "repos" => Len(out) = 1

\* the repositories choice pressed for the stored identifier, empty list
C8_Witness ==
    /\ IsLookupPress
    /\ PressAction = ActRepos
    /\ ev.resp = EmptyArray
    /\ ev.pre = Stored(PressUsername)
    /\ Len(out) = 2
    /\ out[1].text.tmpl = "no_repos"

(***************************************************************************)
(* C9: for both lookups and every response the outcome is the one the      *)
(* fixed table gives (403 RateLimited, 404 NotFound, 200 with the right    *)
(* shape Success, 200 with the wrong shape MalformedUpstream, anything     *)
(* else NetworkOrTransportFailure), and success is reported exactly for    *)
(* Success.                                                                *)
(***************************************************************************)
C9_OutcomeTable ==
    (fin.fn \in {"user", "repos"} /\ fout.done /\ PatternOK(fin.username)) =>
        /\ OutcomeOf(fout.res.reply) = TableOutcome(fin.fn, fin.resp)
        /\ fout.res.success <=> OutcomeOf(fout.res.reply) = "Success"

(***************************************************************************)
(* C10: the text of a lookup that does not succeed carries no exception    *)
(* text, and is the same for every response to the same lookup of the      *)
(* same identifier that ends in the same outcome.                          *)
(***************************************************************************)
C10_TextKeyedByOutcome ==
    (fin.fn \in {"user", "repos"} /\ fout.done /\ ~fout.res.success) =>
        /\ fout.res.reply.diag = ""
        /\ \A r2 \in DispatchResponses :
              LET o == Lookup(fin.fn, fin.username, r2) IN
              OutcomeOf(o.reply) = OutcomeOf(fout.res.reply) =>
                  o.reply = fout.res.reply

(***************************************************************************)
(* C11: every lookup eventually completes with an outcome and a reply,     *)
(* also when the remote accepts the request and never answers.             *)
(***************************************************************************)
C11_LookupCompletes == <>fout.done

(***************************************************************************)
(* C12: no event ends in an exception that escapes its handler: every      *)
(* event, and every press whatever its token, returns normally and is      *)
(* answered with a reply.                                                  *)
(***************************************************************************)
C12_EveryEventAnswered ==
    ev.kind # "none" => (ev.exc = "" /\ Len(out) >= 1)

(***************************************************************************)
(* C13: the start command leaves nothing stored and the conversation not   *)
(* awaiting a choice, and sends the greeting with no menu.                 *)
(***************************************************************************)
C13_StartResets ==
    ev.kind = "start" =>
        /\ user_data[ev.conv] = EmptyDict
        /\ ~Awaiting(user_data[ev.conv])
        /\ out = <<Msg(GreetingText, <<>>)>>
        /\ calls = <<>>

\* start issued while an identifier was stored
C13_Witness ==
    /\ ev.kind = "start"
    /\ Awaiting(ev.pre)
    /\ user_data[ev.conv] = EmptyDict

(***************************************************************************)
(* C14: the help command leaves the conversation's user_data as it was     *)
(* and issues no request.                                                  *)
(***************************************************************************)
C14_HelpIsStateless ==
    ev.kind = "help" =>
        /\ user_data[ev.conv] = ev.pre
        /\ calls = <<>>
        /\ out = <<Msg(HelpText, <<>>)>>

\* help issued while an identifier was stored
C14_Witness ==
    /\ ev.kind = "help"
    /\ Awaiting(ev.pre)
    /\ user_data[ev.conv] = ev.pre

(***************************************************************************)
(* C15: the /repos command leaves user_data as it was and sends one reply  *)
(* with no menu, for every argument and every outcome; with an argument    *)
(* the reply and the request are those of a repositories press for the     *)
(* same username and the same remote answer.                               *)
(***************************************************************************)
C15_ReposCommandBypassesMenu ==
    ev.kind = "repos" =>
        /\ user_data[ev.conv] = ev.pre
        /\ Len(out) = 1
        /\ out[1].markup = <<>>
        /\ IF ev.args = <<>>
           THEN out[1].text = UsageText /\ calls = <<>>
           ELSE LET u == Strip(ev.args[1])
                    press == button_callback(ev.pre, Token(ActRepos, u), ev.resp)
                IN  /\ out[1].text = press.out[1].text
                    /\ calls = press.calls
                    /\ ~PatternOK(u) => out[1].text = InvalidText(u) /\ calls = <<>>

\* /repos for a name other than the stored one, answered with a listing
C15_Witness ==
    /\ ev.kind = "repos"
    /\ ev.args = <<Hyph>>
    /\ ev.pre = Stored(Octo)
    /\ out[1].text.tmpl = "top_repos"
    /\ user_data[ev.conv] = Stored(Octo)

(***************************************************************************)
(* C16: in every step, whatever the interleaving of the two conversations' *)
(* events, the handled event reads its own conversation's user_data only   *)
(* and every other conversation's user_data is left as it was.             *)
(***************************************************************************)
C16_NoCrossConversationInterference ==
    [][ /\ ev'.pre = user_data[ev'.conv]
        /\ \A c \in Convs : c # ev'.conv => user_data'[c] = user_data[c]
      ]_vars

\* the two conversations hold different identifiers, the second stored last
C16_Witness ==
    /\ ev.kind = "text"
    /\ ev.conv = "c2"
    /\ user_data["c1"] = Stored(Octo)
    /\ user_data["c2"] = Stored(Hyph)

(***************************************************************************)
(* C17: one event issues at most one GET.  A profile or repositories       *)
(* press, or a /repos command, for a username the validator accepts        *)
(* issues exactly one GET, to the endpoint chosen and for that username,   *)
(* whatever the outcome; every other event issues none.                    *)
(***************************************************************************)
C17_OneGetPerLookup ==
    /\ Len(calls) <= 1
    /\ IF IsLookupPress /\ is_valid_github_username(PressUsername)
       THEN calls = <<Get(IF PressAction = ActUser THEN "users" ELSE "repos",
                          PressUsername)>>
       ELSE IF ev.kind = "repos" /\ ev.args # <<>>
                  /\ is_valid_github_username(Strip(ev.args[1]))
       THEN calls = <<Get("repos", Strip(ev.args[1]))>>
       ELSE calls = <<>>

\* a lookup that was rate limited: one GET was issued
C17_Witness ==
    /\ IsLookupPress
    /\ PatternOK(PressUsername)
    /\ ev.resp.kind = "http"
    /\ ev.resp.status = 403
    /\ Len(calls) = 1
    /\ out[1].text = RateLimitText

\* the value a formatted reply shows next to a label
Shown(reply, label) ==
    LET i == CHOOSE j \in 1..Len(reply.lines) : reply.lines[j][1] = label
    IN  reply.lines[i][2]

(***************************************************************************)
(* C18: a profile lookup answered with status 200 and a JSON object        *)
(* succeeds whichever fields are absent or null; an absent name or bio     *)
(* shows N/A, an absent count 0, an absent timestamp N/A and an absent     *)
(* profile URL the URL built from the username.                            *)
(***************************************************************************)
C18_MissingFieldsDefaulted ==
    ( /\ fin.fn = "user" /\ fout.done /\ PatternOK(fin.username)
      /\ fin.resp.kind = "http" /\ fin.resp.status = 200
      /\ fin.resp.body.type = "object" ) =>
        LET f == fin.resp.body.fields
            reply == fout.res.reply
            Default(key, label, d) == f[key] = "missing" => Shown(reply, label) = d
        IN  /\ fout.res.success
            /\ reply.tmpl = "profile"
            /\ Default("name", "Name", "N/A")
            /\ Default("bio", "Bio", "N/A")
            /\ Default("public_repos", "Public Repos", "0")
            /\ Default("followers", "Followers", "0")
            /\ Default("following", "Following", "0")
            /\ Default("created_at", "Joined", "N/A")
            /\ Default("html_url", "Profile", "https://github.com/{username}")

\* the names a formatted listing shows, in the order it shows them
ListedNames(reply) ==
    LET heads == SelectSeq(reply.lines, LAMBDA l : l[1] = "repo")
    IN  [i \in 1..Len(heads) |-> heads[i][2]]

\* the names of the entries of an array that are objects, in array order
ObjectNames(items) ==
    LET objs == SelectSeq(items, LAMBDA e : e.type = "object")
    IN  [i \in 1..Len(objs) |-> objs[i].name]

\* a repositories lookup answered with status 200 and a JSON array
ArrayAnswered ==
    /\ fin.fn = "repos" /\ fout.done /\ PatternOK(fin.username)
    /\ fin.resp.kind = "http" /\ fin.resp.status = 200
    /\ fin.resp.body.type = "array"

RECURSIVE IsSubseq(_, _)
IsSubseq(s, t) ==
    IF s = <<>> THEN TRUE
    ELSE IF t = <<>> THEN FALSE
    ELSE IF Head(s) = Head(t) THEN IsSubseq(Tail(s), Tail(t))
    ELSE IsSubseq(s, Tail(t))

(***************************************************************************)
(* C19: for an array of any length the formatted result lists at most 5    *)
(* repositories, in the order the array has them.                          *)
(***************************************************************************)
C19_AtMostFiveListed ==
    ArrayAnswered =>
        /\ Len(ListedNames(fout.res.reply)) <= PerPage
        /\ IsSubseq(ListedNames(fout.res.reply), ObjectNames(fin.resp.body.items))

StoredStates == {EmptyDict} \cup {Stored(u) : u \in PressIds}

(***************************************************************************)
(* C21: a profile or repositories press leaves the conversation's          *)
(* user_data as it was for every outcome, and what it sends and requests   *)
(* is the same whatever is stored: the lookup is for the identifier of the *)
(* pressed token, and on success the menu offered again is for that        *)
(* identifier, also when nothing or another identifier is stored.          *)
(***************************************************************************)
C21_PressIgnoresStoredState ==
    IsLookupPress =>
        /\ user_data[ev.conv] = ev.pre
        /\ \A ud \in StoredStates :
              LET r == button_callback(ud, ev.args[1], ev.resp)
              IN  r.out = out /\ r.calls = calls /\ r.user_data = ud
        /\ \A i \in 1..Len(calls) : calls[i].username = PressUsername
        /\ Len(out) = 2 => IsMenuFor(out[2], PressUsername)

\* a press on the menu of an identifier submitted before the one now stored
C21_Witness ==
    /\ IsLookupPress
    /\ PressUsername = Octo
    /\ ev.pre = Stored(Hyph)
    /\ user_data[ev.conv] = Stored(Hyph)
    /\ Len(calls) = 1
    /\ calls[1].username = Octo
    /\ Len(out) = 2
    /\ IsMenuFor(out[2], Octo)

\* the identifier a menu's first token embeds
MenuIdentifier(m) == Split1(m.markup[1])[2]

(***************************************************************************)
(* C22: every message sent with a menu comes from a free-text message or   *)
(* a lookup press, and its menu has three tokens, for profile,             *)
(* repositories and quit, that embed one identifier, which                 *)
(* is_valid_github_username accepts; an identifier the validator rejects   *)
(* gets no menu.                                                           *)
(***************************************************************************)
C22_MenusCarryValidIdentifier ==
    /\ \A i \in 1..Len(out) : out[i].markup # <<>> =>
          /\ IsText \/ IsLookupPress
          /\ Len(out[i].markup) = 3
          /\ \A k \in 1..3 : Len(Split1(out[i].markup[k])) = 2
          /\ IsMenuFor(out[i], MenuIdentifier(out[i]))
          /\ is_valid_github_username(MenuIdentifier(out[i]))
          /\ MenuIdentifier(out[i]) = (IF IsText THEN Trimmed ELSE PressUsername)
    /\ (IsText /\ ~is_valid_github_username(Trimmed)) => NoMenuIn(out)
    /\ (IsLookupPress /\ ~is_valid_github_username(PressUsername)) => NoMenuIn(out)

\* a press that succeeded for a hyphenated identifier, while the identifier
\* stored is one the validator rejected: the menu is for the pressed one
C22_Witness ==
    /\ IsLookupPress
    /\ PressAction = ActRepos
    /\ ev.pre = Stored(BadName)
    /\ Len(out) = 2
    /\ IsMenuFor(out[2], Hyph)
    /\ is_valid_github_username(MenuIdentifier(out[2]))

\* the identifier a dict stores
StoredId(ud) == (CHOOSE p \in ud : p[1] = "last_username")[2]

\* the actions of the three buttons, in keyboard order
MenuActions == <<ActUser, ActRepos, ActQuit>>

(***************************************************************************)
(* C23: a button of the menu emitted for a valid identifier u, when        *)
(* pressed, is split at the first underscore into exactly the action of    *)
(* that button and u, and button_callback acts on them: a profile request  *)
(* for u, a repositories request for u, or the reset; this includes        *)
(* identifiers with hyphens.                                               *)
(***************************************************************************)
C23_TokenRoundTrip ==
    ev.kind = "press" =>
        LET u == StoredId(ev.pre) IN
        /\ is_valid_github_username(u)
        /\ ev.exc = ""
        /\ \E k \in 1..3 :
              /\ ev.args[1] = Keyboard(u)[k]
              /\ Split1(ev.args[1]) = <<MenuActions[k], u>>
              /\ k = 1 => calls = <<Get("users", u)>>
              /\ k = 2 => calls = <<Get("repos", u)>>
              /\ k = 3 => calls = <<>> /\ out = <<Msg(QuitText, <<>>)>>
                                      /\ user_data[ev.conv] = EmptyDict

\* the repositories button of the menu for a hyphenated identifier
C23_Witness ==
    /\ ev.kind = "press"
    /\ StoredId(ev.pre) = <<"a", "-", "7">>
    /\ Split1(ev.args[1]) = <<ActRepos, <<"a", "-", "7">>>>
    /\ calls = <<Get("repos", <<"a", "-", "7">>)>>

====
